---- MODULE Spec2Model ----
(***************************************************************************)
(* Model of miab_dns_cli.py: a command-line client that issues a short     *)
(* ordered sequence of blocking HTTP calls to a Mail-in-a-Box DNS admin    *)
(* API.  Strings whose content matters (record names, domains, values,     *)
(* prompt answers) are sequences of one-character strings.                 *)
(***************************************************************************)
EXTENDS Integers, Sequences, FiniteSets, TLC

VARIABLES
    pc,        \* position of cli_main
    cmd,       \* parsed arguments (args)
    remote,    \* custom records held by the server (/dns/custom)
    remote0,   \* the custom records when the invocation started
    calls,     \* remote calls issued so far, in order, with their outcome
    records,   \* cli_main / update_record local: fetched records still to walk
    custom,    \* get_combined_records / get-zonefile local: fetched custom list
    result,    \* the value handed to print_pretty
    out,       \* lines written to the terminal and the log, in order
    answer,    \* what the user typed at the confirmation prompt
    exitCode,  \* process exit status, Running while the process lives
    fDomain,   \* filter_records_by_domain: argument domain
    fRecords,  \* filter_records_by_domain: argument records
    fResult,   \* filter_records_by_domain: returned list
    fPc        \* position of the filter harness

vars == <<pc, cmd, remote, remote0, calls, records, custom, result, out,
          answer, exitCode, fDomain, fRecords, fResult, fPc>>

cliVars == <<pc, cmd, remote, remote0, calls, records, custom, result, out,
             answer, exitCode>>

filterVars == <<fDomain, fRecords, fResult, fPc>>

----------------------------------------------------------------------------
(* Bounds *)

MaxRemote == 3      \* custom records on the server at start
MaxExt == 1         \* records in an external zonefile answer
MaxNameLen == 3     \* length of a record name given to the filter
MaxDomLen == 2      \* length of a domain given to the filter
MaxRecs == 2        \* records in a list given to the filter

----------------------------------------------------------------------------
(* Strings *)

SeqsUpTo(S, n) == UNION {[1..k -> S] : k \in 0..n}

\* str.lower() on one character
LowerChar(c) ==
    CASE c = "A" -> "a"
      [] c = "E" -> "e"
      [] c = "N" -> "n"
      [] c = "O" -> "o"
      [] c = "S" -> "s"
      [] c = "Y" -> "y"
      [] OTHER -> c

Lower(s) == [i \in 1..Len(s) |-> LowerChar(s[i])]

IsSpace(c) == c \in {" ", "\t", "\n"}

RECURSIVE LStrip(_)
LStrip(s) == IF s # <<>> /\ IsSpace(Head(s)) THEN LStrip(Tail(s)) ELSE s

RECURSIVE RStrip(_)
RStrip(s) ==
    IF s # <<>> /\ IsSpace(s[Len(s)]) THEN RStrip(SubSeq(s, 1, Len(s) - 1)) ELSE s

\* str.strip()
Strip(s) == RStrip(LStrip(s))

\* str.endswith(suffix)
EndsWith(s, suffix) ==
    /\ Len(suffix) <= Len(s)
    /\ SubSeq(s, Len(s) - Len(suffix) + 1, Len(s)) = suffix

RECURSIVE IndexOfDot(_, _)
IndexOfDot(s, i) ==
    IF i > Len(s) THEN 0 ELSE IF s[i] = "." THEN i ELSE IndexOfDot(s, i + 1)

\* qname.split(".", 1)[-1]
SplitAfterFirstDot(s) ==
    LET k == IndexOfDot(s, 1) IN IF k = 0 THEN s ELSE SubSeq(s, k + 1, Len(s))

----------------------------------------------------------------------------
(* Pure helpers of the client *)

Rec(q, t, v) == [qname |-> q, rtype |-> t, value |-> v, source |-> "none"]

\* variant: accepts any answer that starts with "y"
PromptYesNo_StartsWithY(ans) ==
    Lower(Strip(ans)) # <<>> /\ Head(Lower(Strip(ans))) = "y"

PromptYesNo(ans) == Lower(Strip(ans)) \in {<<"y">>, <<"y", "e", "s">>}

FindExistingRecord(recs, qname) == SelectSeq(recs, LAMBDA r : r.qname = qname)

FilterRecordsByDomain(recs, domain) ==
    SelectSeq(recs, LAMBDA r : EndsWith(r.qname, domain))

Tag(recs, src) == [i \in 1..Len(recs) |-> [recs[i] EXCEPT !.source = src]]

ExtendRecordsWithSourceTag(custom_records, external_records) ==
    IF external_records # <<>>
    THEN Tag(custom_records, "custom") \o Tag(external_records, "external")
    ELSE Tag(custom_records, "custom")

\* variant: matches on the name alone
GetRecord_NameOnly(recs, qname, rtype) ==
    SelectSeq(recs, LAMBDA r : r.qname = qname)

\* variant: the type comparison is inverted
GetRecord_OtherType(recs, qname, rtype) ==
    SelectSeq(recs, LAMBDA r : r.qname = qname /\ r.rtype # rtype)

GetRecord(recs, qname, rtype) ==
    SelectSeq(recs, LAMBDA r : r.qname = qname /\ r.rtype = rtype)

----------------------------------------------------------------------------
(* Harness for filter_records_by_domain *)

FilterAlphabet == {"a", "A", "."}

FilterNames == SeqsUpTo(FilterAlphabet, MaxNameLen)

\* the filter is only reached with a non-empty domain
FilterDomains == SeqsUpTo(FilterAlphabet, MaxDomLen) \ {<<>>}

FilterIdle ==
    /\ fDomain = <<>>
    /\ fRecords = <<>>
    /\ fResult = <<>>
    /\ fPc = "idle"

CliIdle ==
    /\ pc = "idle"
    /\ cmd = [command |-> "none"]
    /\ remote = <<>>
    /\ remote0 = <<>>
    /\ calls = <<>>
    /\ records = <<>>
    /\ custom = <<>>
    /\ result = <<>>
    /\ out = <<>>
    /\ answer = <<>>
    /\ exitCode = -1

FilterInit ==
    /\ CliIdle
    /\ fDomain \in FilterDomains
    /\ fRecords = <<>>
    /\ fResult = <<>>
    /\ fPc = "build"

FilterAddRecord ==
    /\ fPc = "build"
    /\ Len(fRecords) < MaxRecs
    /\ \E n \in FilterNames : fRecords' = Append(fRecords, Rec(n, "A", <<"1">>))
    /\ UNCHANGED <<fDomain, fResult, fPc>>
    /\ UNCHANGED cliVars

FilterApply ==
    /\ fPc = "build"
    /\ fResult' = FilterRecordsByDomain(fRecords, fDomain)
    /\ fPc' = "done"
    /\ UNCHANGED <<fDomain, fRecords>>
    /\ UNCHANGED cliVars

FilterNext == FilterAddRecord \/ FilterApply

SpecFilter == FilterInit /\ [][FilterNext]_vars

----------------------------------------------------------------------------
(* Inputs of one invocation *)

ExampleCom == <<"e", ".", "c">>
WwwExampleCom == <<"w", ".", "e", ".", "c">>
NotExampleCom == <<"n", "e", ".", "c">>
OtherOrg == <<"o", ".", "g">>

QNames == {WwwExampleCom, OtherOrg}
CmdQNames == {ExampleCom, WwwExampleCom}
RTypes == {"A", "TXT"}
RemoteValues == {<<"1">>, <<"2">>}
CmdValues == {<<"1">>, <<" ", "3", "\n">>}
Domains == {<<>>, ExampleCom}
Zones == {ExampleCom}

Answers ==
    { <<"y">>, <<"Y">>, <<"y", "e", "s">>, <<" ", "Y", "E", "S", " ">>,
      <<"n">>, <<>>, <<"n", "o">>, <<"y", "e">> }

PromptEvents ==
    {[kind |-> "typed", text |-> a] : a \in Answers}
        \cup {[kind |-> "interrupt", text |-> <<>>], [kind |-> "eof", text |-> <<>>]}

NoAnswer == [kind |-> "none", text |-> <<>>]

Statuses == {"ok", "http_error", "net_error"}

RemoteRecords == {Rec(q, t, v) : q \in QNames, t \in RTypes, v \in RemoteValues}

ExternalRecords == {Rec(ExampleCom, "NS", <<"1">>), Rec(NotExampleCom, "A", <<"1">>)}

IsInjective(s) == \A i, j \in 1..Len(s) : i # j => s[i] # s[j]

\* the server never holds the same (qname, rtype, value) twice
RemoteStates == {s \in SeqsUpTo(RemoteRecords, MaxRemote) : IsInjective(s)}

ExternalAnswers == SeqsUpTo(ExternalRecords, MaxExt)

Args(c, q, t, v, u, e, d, z) ==
    [command |-> c, qname |-> q, rtype |-> t, value |-> v, update |-> u,
     external |-> e, domain |-> d, zone |-> z]

Commands ==
    {Args("list-records", <<>>, "", <<>>, FALSE, e, d, <<>>) :
        e \in BOOLEAN, d \in Domains}
    \cup {Args("get-record", q, t, <<>>, FALSE, e, <<>>, <<>>) :
        q \in CmdQNames, t \in RTypes, e \in BOOLEAN}
    \cup {Args("add-record", q, t, v, u, FALSE, <<>>, <<>>) :
        q \in CmdQNames, t \in RTypes, v \in CmdValues, u \in BOOLEAN}
    \cup {Args("update-record", q, t, v, FALSE, FALSE, <<>>, <<>>) :
        q \in CmdQNames, t \in RTypes, v \in CmdValues}
    \cup {Args("remove-record", q, t, <<>>, FALSE, FALSE, <<>>, <<>>) :
        q \in CmdQNames, t \in RTypes}
    \cup {Args("get-zonefile", <<>>, "", <<>>, FALSE, e, <<>>, z) :
        e \in BOOLEAN, z \in Zones}
    \cup {Args(c, <<>>, "", <<>>, u, FALSE, <<>>, <<>>) :
        c \in {"update-dns"}, u \in BOOLEAN}
    \cup {Args(c, <<>>, "", <<>>, FALSE, FALSE, <<>>, <<>>) :
        c \in {"list-zones", "get-secondary-ns", "add-secondary-ns"}}

----------------------------------------------------------------------------
(* The server and the transport *)

Call(op, q, t, st) == [op |-> op, qname |-> q, rtype |-> t, status |-> st]

\* variant: raise_for_status() is not called
CallRaises_TransportOnly(st) == st = "net_error"

\* session.get/post/delete raising on a transport failure, or
\* raise_for_status() raising on a non-2xx answer
CallRaises(st) == st # "ok"

\* DELETE /dns/custom/{qname}/{rtype}
RemoteDelete(rem, q, t) ==
    SelectSeq(rem, LAMBDA r : ~(r.qname = q /\ r.rtype = t))

\* POST /dns/custom/{qname}/{rtype} with the trimmed value as body
RemoteAdd(rem, q, t, v) ==
    IF \E i \in 1..Len(rem) : rem[i] = Rec(q, t, Strip(v))
    THEN rem
    ELSE Append(rem, Rec(q, t, Strip(v)))

\* GET /dns/zones/{zone}: the custom records the server files under the zone
ZoneRecords(rem, zone) ==
    SelectSeq(rem, LAMBDA r : r.qname = zone \/ EndsWith(r.qname, <<".">> \o zone))

----------------------------------------------------------------------------
(* cli_main *)

Records(rows) == [kind |-> "records", rows |-> rows, message |-> ""]
Message(m) == [kind |-> "message", rows |-> <<>>, message |-> m]
Payload == [kind |-> "payload", rows |-> <<>>, message |-> ""]
NoResult == [kind |-> "none", rows |-> <<>>, message |-> ""]

Running == -1

Init ==
    /\ FilterIdle
    /\ pc = "start"
    /\ cmd \in Commands
    /\ remote \in RemoteStates
    /\ remote0 = remote
    /\ calls = <<>>
    /\ records = <<>>
    /\ custom = <<>>
    /\ result = NoResult
    /\ out = <<>>
    /\ answer = NoAnswer
    /\ exitCode = Running

\* except requests.exceptions.RequestException / except Exception
Fatal(line) ==
    /\ out' = Append(out, line)
    /\ exitCode' = 1
    /\ pc' = "done"

RequestFailed ==
    /\ Fatal("error: Request failed")
    /\ UNCHANGED <<cmd, remote, remote0, records, custom, result, answer>>

LoadCredentials ==
    /\ pc = "start"
    /\ \E present \in BOOLEAN :
        IF present
        THEN /\ pc' = "dispatch"
             /\ UNCHANGED <<out, exitCode>>
        ELSE Fatal("error")
    /\ UNCHANGED <<cmd, remote, remote0, calls, records, custom, result, answer>>
    /\ UNCHANGED filterVars

\* one blocking call: its outcome is logged, a raising outcome is fatal
Issue(op, q, t, st) == calls' = Append(calls, Call(op, q, t, st))

\* dns.list_records() / dns.get_record() without --external
ListRecordsPlain ==
    /\ pc = "dispatch"
    /\ cmd.command = "list-records"
    /\ ~cmd.external
    /\ \E st \in Statuses :
        /\ Issue("list", <<>>, "", st)
        /\ IF CallRaises(st)
           THEN RequestFailed
           ELSE /\ result' = Records(remote)
                /\ pc' = "print"
                /\ UNCHANGED <<cmd, remote, remote0, records, custom, out,
                               answer, exitCode>>
    /\ UNCHANGED filterVars

GetRecordPlain ==
    /\ pc = "dispatch"
    /\ cmd.command = "get-record"
    /\ ~cmd.external
    /\ \E st \in Statuses :
        /\ Issue("list", <<>>, "", st)
        /\ IF CallRaises(st)
           THEN RequestFailed
           ELSE /\ result' = Records(GetRecord(remote, cmd.qname, cmd.rtype))
                /\ pc' = "print"
                /\ UNCHANGED <<cmd, remote, remote0, records, custom, out,
                               answer, exitCode>>
    /\ UNCHANGED filterVars

\* get_combined_records: custom = dns.list_records()
CombinedListCustom ==
    /\ pc = "dispatch"
    /\ cmd.command \in {"list-records", "get-record"}
    /\ cmd.external
    /\ \E st \in Statuses :
        /\ Issue("list", <<>>, "", st)
        /\ IF CallRaises(st)
           THEN RequestFailed
           ELSE /\ custom' = remote
                /\ pc' = "combined_external"
                /\ UNCHANGED <<cmd, remote, remote0, records, result, out,
                               answer, exitCode>>
    /\ UNCHANGED filterVars

\* the zone asked of /dns/zonefile-external/
ExternalZone(domain_filter, qname) ==
    IF domain_filter # <<>> THEN domain_filter ELSE SplitAfterFirstDot(qname)

\* variant: except requests.ConnectionError
ExternalCaught_TransportOnly(st) == st = "net_error"

\* except Exception: which outcomes of the external fetch are swallowed
ExternalCaught(st) == st \in {"http_error", "net_error"}

\* get_combined_records after the two fetches
CombineRecords(customRecs, st, body, domain_filter, qname, rtype) ==
    LET external == IF CallRaises(st) THEN <<>> ELSE body
        all_records == ExtendRecordsWithSourceTag(customRecs, external)
    IN  IF domain_filter # <<>>
        THEN FilterRecordsByDomain(all_records, domain_filter)
        ELSE IF qname # <<>> /\ rtype # ""
             THEN GetRecord(all_records, qname, rtype)
             ELSE all_records

\* get_combined_records: the best-effort external fetch, tagging, filtering
CombinedExternal ==
    /\ pc = "combined_external"
    /\ \E st \in Statuses, body \in ExternalAnswers :
        /\ Issue("external", ExternalZone(cmd.domain, cmd.qname), "", st)
        /\ IF CallRaises(st) /\ ~ExternalCaught(st)
           THEN RequestFailed
           ELSE /\ result' = Records(CombineRecords(custom, st, body, cmd.domain,
                                                    cmd.qname, cmd.rtype))
                /\ pc' = "print"
                /\ UNCHANGED <<cmd, remote, remote0, records, custom, out,
                               answer, exitCode>>
    /\ UNCHANGED filterVars

\* variant: the conflict is never seen
HasConflict_Never(existing, rtype) == FALSE

\* any(r["rtype"] == args.rtype for r in existing)
HasConflict(existing, rtype) == \E i \in 1..Len(existing) : existing[i].rtype = rtype

\* add-record: fetch, inspect, decide
AddRecordInspect ==
    /\ pc = "dispatch"
    /\ cmd.command = "add-record"
    /\ \E st \in Statuses :
        /\ Issue("list", <<>>, "", st)
        /\ IF CallRaises(st)
           THEN RequestFailed
           ELSE LET existing == FindExistingRecord(remote, cmd.qname) IN
                /\ IF HasConflict(existing, cmd.rtype)
                   THEN /\ out' = out \o <<"warn: Existing record(s)", "table">>
                        /\ records' = existing
                        /\ pc' = IF cmd.update THEN "add_remove" ELSE "add_prompt"
                   ELSE /\ pc' = "add_post"
                        /\ UNCHANGED <<out, records>>
                /\ UNCHANGED <<cmd, remote, remote0, custom, result, answer,
                               exitCode>>
    /\ UNCHANGED filterVars

\* prompt_yes_no and the branch on its answer
AddRecordPrompt ==
    /\ pc = "add_prompt"
    /\ \E ev \in PromptEvents :
        /\ answer' = ev
        /\ CASE ev.kind = "interrupt" ->
                    /\ out' = Append(out, "Cancelled.")
                    /\ exitCode' = 1
                    /\ pc' = "done"
             [] ev.kind = "eof" -> Fatal("error")
             [] OTHER ->
                    IF PromptYesNo(ev.text)
                    THEN /\ pc' = "add_remove"
                         /\ UNCHANGED <<out, exitCode>>
                    ELSE /\ out' = Append(out, "Record was not added or updated.")
                         /\ exitCode' = 0
                         /\ pc' = "done"
    /\ UNCHANGED <<cmd, remote, remote0, calls, records, custom, result>>
    /\ UNCHANGED filterVars

\* variant: the loop lacks the type test
ToRemove_AnyType(existing, rtype) == existing

\* for r in existing: if r["rtype"] == args.rtype: the records that get a delete
ToRemove(existing, rtype) == SelectSeq(existing, LAMBDA r : r.rtype = rtype)

\* add-record: one dns.remove_record call of the loop
AddRecordRemove ==
    /\ pc = "add_remove"
    /\ LET todo == ToRemove(records, cmd.rtype) IN
        /\ todo # <<>>
        /\ \E st \in Statuses :
            /\ Issue("delete", Head(todo).qname, Head(todo).rtype, st)
            /\ IF CallRaises(st)
               THEN RequestFailed
               ELSE /\ remote' = RemoteDelete(remote, Head(todo).qname,
                                              Head(todo).rtype)
                    /\ records' = Tail(todo)
                    /\ pc' = IF Tail(todo) = <<>> THEN "add_post" ELSE "add_remove"
                    /\ UNCHANGED <<cmd, remote0, custom, result, out, answer,
                                   exitCode>>
    /\ UNCHANGED filterVars

\* dns.add_record, from add-record (either branch) or from update_record
PostRecord(from) ==
    /\ pc = from
    /\ \E st \in Statuses :
        /\ Issue("add", cmd.qname, cmd.rtype, st)
        /\ IF CallRaises(st)
           THEN RequestFailed
           ELSE /\ remote' = RemoteAdd(remote, cmd.qname, cmd.rtype, cmd.value)
                /\ result' = Message("Record added or updated.")
                /\ pc' = "print"
                /\ UNCHANGED <<cmd, remote0, records, custom, out, answer,
                               exitCode>>
    /\ UNCHANGED filterVars

AddRecordPost == PostRecord("add_post")

\* update_record: existing = self.get_record(qname, rtype)
UpdateRecordFetch ==
    /\ pc = "dispatch"
    /\ cmd.command = "update-record"
    /\ \E st \in Statuses :
        /\ Issue("list", <<>>, "", st)
        /\ IF CallRaises(st)
           THEN RequestFailed
           ELSE LET existing == GetRecord(remote, cmd.qname, cmd.rtype) IN
                /\ records' = existing
                /\ pc' = IF existing = <<>> THEN "update_post" ELSE "update_remove"
                /\ UNCHANGED <<cmd, remote, remote0, custom, result, out, answer,
                               exitCode>>
    /\ UNCHANGED filterVars

\* update_record: one self.remove_record call of the loop
UpdateRecordRemove ==
    /\ pc = "update_remove"
    /\ records # <<>>
    /\ \E st \in Statuses :
        /\ Issue("delete", Head(records).qname, Head(records).rtype, st)
        /\ IF CallRaises(st)
           THEN RequestFailed
           ELSE /\ remote' = RemoteDelete(remote, Head(records).qname,
                                          Head(records).rtype)
                /\ records' = Tail(records)
                /\ pc' = IF Tail(records) = <<>> THEN "update_post"
                                                ELSE "update_remove"
                /\ UNCHANGED <<cmd, remote0, custom, result, out, answer,
                               exitCode>>
    /\ UNCHANGED filterVars

UpdateRecordPost == PostRecord("update_post")

RemoveRecordCmd ==
    /\ pc = "dispatch"
    /\ cmd.command = "remove-record"
    /\ \E st \in Statuses :
        /\ Issue("delete", cmd.qname, cmd.rtype, st)
        /\ IF CallRaises(st)
           THEN RequestFailed
           ELSE /\ remote' = RemoteDelete(remote, cmd.qname, cmd.rtype)
                /\ result' = Message("Record deleted.")
                /\ pc' = "print"
                /\ UNCHANGED <<cmd, remote0, records, custom, out, answer,
                               exitCode>>
    /\ UNCHANGED filterVars

\* the commands that are one call whose answer is printed as it comes
SimpleOp(command) ==
    CASE command = "list-zones" -> "zones"
      [] command = "update-dns" -> "update"
      [] command = "get-secondary-ns" -> "get-secondary"
      [] command = "add-secondary-ns" -> "add-secondary"

SimpleCmd ==
    /\ pc = "dispatch"
    /\ cmd.command \in {"list-zones", "update-dns", "get-secondary-ns",
                        "add-secondary-ns"}
    /\ \E st \in Statuses :
        /\ Issue(SimpleOp(cmd.command), <<>>, "", st)
        /\ IF CallRaises(st)
           THEN RequestFailed
           ELSE /\ result' = Payload
                /\ pc' = "print"
                /\ UNCHANGED <<cmd, remote, remote0, records, custom, out,
                               answer, exitCode>>
    /\ UNCHANGED filterVars

\* get-zonefile: custom = dns.get_zonefile(args.zone)
GetZonefileCustom ==
    /\ pc = "dispatch"
    /\ cmd.command = "get-zonefile"
    /\ \E st \in Statuses :
        /\ Issue("zonefile", cmd.zone, "", st)
        /\ IF CallRaises(st)
           THEN RequestFailed
           ELSE /\ custom' = ZoneRecords(remote, cmd.zone)
                /\ IF cmd.external
                   THEN /\ pc' = "zonefile_external"
                        /\ UNCHANGED result
                   ELSE /\ pc' = "print"
                        /\ result' = Records(ExtendRecordsWithSourceTag(
                                                ZoneRecords(remote, cmd.zone), <<>>))
                /\ UNCHANGED <<cmd, remote, remote0, records, out, answer,
                               exitCode>>
    /\ UNCHANGED filterVars

\* get-zonefile --external: the fetch under the bare except, then the tagging
GetZonefileExternal ==
    /\ pc = "zonefile_external"
    /\ \E st \in Statuses, body \in ExternalAnswers :
        /\ Issue("external", cmd.zone, "", st)
        /\ IF CallRaises(st)
           THEN /\ out' = Append(out, "warn: No external records found or supported.")
                /\ result' = Records(ExtendRecordsWithSourceTag(custom, <<>>))
           ELSE /\ result' = Records(ExtendRecordsWithSourceTag(custom, body))
                /\ UNCHANGED out
        /\ pc' = "print"
    /\ UNCHANGED <<cmd, remote, remote0, records, custom, answer, exitCode>>
    /\ UNCHANGED filterVars

\* print_pretty(args.command, result) and the normal return
PrintResult ==
    /\ pc = "print"
    /\ out' = Append(out, "result")
    /\ exitCode' = 0
    /\ pc' = "done"
    /\ UNCHANGED <<cmd, remote, remote0, calls, records, custom, result, answer>>
    /\ UNCHANGED filterVars

Next ==
    \/ LoadCredentials
    \/ ListRecordsPlain
    \/ GetRecordPlain
    \/ CombinedListCustom
    \/ CombinedExternal
    \/ AddRecordInspect
    \/ AddRecordPrompt
    \/ AddRecordRemove
    \/ AddRecordPost
    \/ UpdateRecordFetch
    \/ UpdateRecordRemove
    \/ UpdateRecordPost
    \/ RemoveRecordCmd
    \/ SimpleCmd
    \/ GetZonefileCustom
    \/ GetZonefileExternal
    \/ PrintResult

Spec == Init /\ [][Next]_vars

----------------------------------------------------------------------------
(* Vocabulary of the properties *)

\* the records of rem filed under the pair (q, t), and the others
PairRecords(rem, q, t) == SelectSeq(rem, LAMBDA r : r.qname = q /\ r.rtype = t)
OtherRecords(rem, q, t) == SelectSeq(rem, LAMBDA r : ~(r.qname = q /\ r.rtype = t))

Mutations == SelectSeq(calls, LAMBDA c : c.op \in {"delete", "add"})
CallsOf(op) == SelectSeq(calls, LAMBDA c : c.op = op)

Matching0 == PairRecords(remote0, cmd.qname, cmd.rtype)

\* n deletes of the requested pair, then one add of it
ExpectedMutations(n) ==
    [i \in 1..(n + 1) |->
        [op |-> IF i <= n THEN "delete" ELSE "add",
         qname |-> cmd.qname, rtype |-> cmd.rtype]]

Target(c) == [op |-> c.op, qname |-> c.qname, rtype |-> c.rtype]

\* the mutations issued so far are the first ones of the expected sequence,
\* each issued only after the previous one succeeded
InExpectedOrder(n) ==
    /\ Len(Mutations) <= n + 1
    /\ \A i \in 1..Len(Mutations) :
        /\ Target(Mutations[i]) = ExpectedMutations(n)[i]
        /\ i < Len(Mutations) => Mutations[i].status = "ok"

\* all n deletes and the add were issued and succeeded
AllApplied(n) ==
    /\ Len(Mutations) = n + 1
    /\ \A i \in 1..Len(Mutations) : Mutations[i].status = "ok"

IsYes(text) == Lower(Strip(text)) \in {<<"y">>, <<"y", "e", "s">>}
Refused == answer.kind = "typed" /\ ~IsYes(answer.text)
Accepted == answer.kind = "typed" /\ IsYes(answer.text)

Conflict0 ==
    \E i \in 1..Len(remote0) :
        remote0[i].qname = cmd.qname /\ remote0[i].rtype = cmd.rtype

LastOut == IF out = <<>> THEN "" ELSE out[Len(out)]

ErrorLines == {"error", "error: Request failed"}
NoErrorLogged == \A i \in 1..Len(out) : out[i] \notin ErrorLines

TagCustom(rows) == [i \in 1..Len(rows) |-> [rows[i] EXCEPT !.source = "custom"]]

\* the documented match: case-insensitive, trailing dots ignored, the name
\* is the domain or ends with "." followed by the domain
RECURSIVE RStripDots(_)
RStripDots(s) ==
    IF s # <<>> /\ s[Len(s)] = "." THEN RStripDots(SubSeq(s, 1, Len(s) - 1)) ELSE s

Norm(s) == RStripDots(Lower(s))

SpecMatches(name, domain) ==
    \/ Norm(name) = Norm(domain)
    \/ EndsWith(Norm(name), <<".">> \o Norm(domain))

----------------------------------------------------------------------------
(* Properties *)

\* C1: add-record with a conflict, no update flag and a refused prompt issues
\* no delete and no add call, leaves the remote records as they were and ends
\* with the cancellation message.
C1_RefusalMutatesNothing ==
    (cmd.command = "add-record" /\ Refused) =>
        /\ Conflict0 /\ ~cmd.update
        /\ Mutations = <<>>
        /\ remote = remote0
        /\ pc = "done"
        /\ LastOut = "Record was not added or updated."

C1_Witness ==
    /\ cmd.command = "add-record"
    /\ answer = [kind |-> "typed", text |-> <<"y", "e">>]
    /\ Len(Matching0) = 2
    /\ pc = "done"

\* C2: add-record with a conflict that proceeds (update flag, or prompt answered
\* y/yes) issues one delete per existing record of the requested (qname, rtype),
\* none for another type, all before exactly one add; each call is issued only
\* after the previous one succeeded, and a run that completes has issued all.
C2_DeletesThenOneAdd ==
    (cmd.command = "add-record" /\ Conflict0 /\ (cmd.update \/ Accepted)) =>
        /\ InExpectedOrder(Len(Matching0))
        /\ (pc \in {"print", "done"} /\ exitCode # 1) => AllApplied(Len(Matching0))

C2_Witness ==
    /\ cmd.command = "add-record"
    /\ Accepted
    /\ Len(Matching0) = 2
    /\ \E i \in 1..Len(remote0) :
        remote0[i].qname = cmd.qname /\ remote0[i].rtype # cmd.rtype
    /\ pc = "done"
    /\ exitCode = 0
    /\ Len(CallsOf("delete")) = 2
    /\ Len(CallsOf("add")) = 1

\* C3 as stated: every remote call that fails, of whatever command, is the last
\* call of the run and ends the invocation as a fatal error with exit code 1.
C3_EveryFailureFatal ==
    \A i \in 1..Len(calls) :
        calls[i].status # "ok" =>
            /\ i = Len(calls)
            /\ pc = "done" => (exitCode = 1 /\ LastOut \in ErrorLines)

\* C3 amended: every failed remote call is the last call of the run, and every
\* failed call other than the best-effort fetch of external records ends the
\* invocation as a fatal error with exit code 1.
C3_FailureFatalExceptExternal ==
    \A i \in 1..Len(calls) :
        calls[i].status # "ok" =>
            /\ i = Len(calls)
            /\ calls[i].op # "external" =>
                /\ pc = "done"
                /\ exitCode = 1
                /\ LastOut \in ErrorLines

C3_Witness ==
    /\ cmd.command = "add-record"
    /\ Len(calls) = 2
    /\ calls[2].op = "delete"
    /\ calls[2].status = "http_error"
    /\ Len(Matching0) = 2
    /\ exitCode = 1

\* C5: update-record never prompts, fetches the custom records once, and issues
\* one delete per existing record of (qname, rtype) followed by one add, each
\* call only after the previous one succeeded; with no existing record it
\* issues no delete and one add.
C5_UpdateDeletesThenAdds ==
    cmd.command = "update-record" =>
        /\ answer = NoAnswer
        /\ pc # "add_prompt"
        /\ Len(CallsOf("list")) <= 1
        /\ Mutations # <<>> => (calls[1].op = "list" /\ calls[1].status = "ok")
        /\ InExpectedOrder(Len(Matching0))
        /\ (pc = "done" /\ exitCode = 0) =>
            /\ AllApplied(Len(Matching0))
            /\ Len(calls) = Len(Matching0) + 2

C5_Witness ==
    /\ cmd.command = "update-record"
    /\ pc = "done"
    /\ exitCode = 0
    /\ Len(Matching0) = 2
    /\ Len(remote0) = 3
    /\ Len(CallsOf("delete")) = 2
    /\ Len(CallsOf("add")) = 1

\* C6: a cancelled add-record, by a refused prompt or by an interrupt at the
\* prompt, ends with exit code 1 and a cancellation message, nothing logged as
\* an error.
C6_CancelExitsOne ==
    (cmd.command = "add-record" /\ (Refused \/ answer.kind = "interrupt")) =>
        /\ pc = "done"
        /\ exitCode = 1
        /\ LastOut \in {"Record was not added or updated.", "Cancelled."}
        /\ NoErrorLogged

\* what the listing commands return when only the custom records are at hand
CustomOnly ==
    CASE cmd.command = "list-records" ->
            TagCustom(IF cmd.domain # <<>>
                      THEN FilterRecordsByDomain(remote0, cmd.domain)
                      ELSE remote0)
      [] cmd.command = "get-record" ->
            TagCustom(PairRecords(remote0, cmd.qname, cmd.rtype))
      [] cmd.command = "get-zonefile" ->
            TagCustom(ZoneRecords(remote0, cmd.zone))
      [] OTHER -> <<>>

\* C7: a failed fetch of the external records, in list-records, get-record or
\* get-zonefile with --external, does not abort the command: the result is the
\* command's view of the custom records alone and the run ends with exit 0.
C7_ExternalFailureSwallowed ==
    \A i \in 1..Len(calls) :
        (calls[i].op = "external" /\ calls[i].status # "ok") =>
            /\ cmd.command \in {"list-records", "get-record", "get-zonefile"}
            /\ cmd.external
            /\ pc \in {"print", "done"}
            /\ exitCode # 1
            /\ NoErrorLogged
            /\ result = Records(CustomOnly)
            /\ pc = "done" => (exitCode = 0 /\ LastOut = "result")

C7_Witness ==
    /\ cmd.command = "list-records"
    /\ cmd.domain = ExampleCom
    /\ Len(calls) = 2
    /\ calls[2].op = "external"
    /\ calls[2].status = "http_error"
    /\ Len(remote0) = 3
    /\ Len(result.rows) = 2
    /\ pc = "done"
    /\ exitCode = 0

\* C8: after an add-record or update-record that completed with its add issued,
\* the remote records of (qname, rtype) are at most the submitted record, every
\* record of that pair present before was deleted, and the records of every
\* other pair are unchanged.
C8_AtMostSubmitted ==
    ( /\ cmd.command \in {"add-record", "update-record"}
      /\ pc = "done"
      /\ exitCode = 0
      /\ CallsOf("add") # <<>> ) =>
        /\ \A i \in 1..Len(remote) :
            (remote[i].qname = cmd.qname /\ remote[i].rtype = cmd.rtype) =>
                remote[i] = Rec(cmd.qname, cmd.rtype, Strip(cmd.value))
        /\ Len(PairRecords(remote, cmd.qname, cmd.rtype)) <= 1
        /\ Matching0 # <<>> =>
            \E i \in 1..Len(calls) :
                /\ calls[i] = Call("delete", cmd.qname, cmd.rtype, "ok")
                /\ \A j \in 1..Len(calls) : calls[j].op = "add" => i < j
        /\ OtherRecords(remote, cmd.qname, cmd.rtype)
              = OtherRecords(remote0, cmd.qname, cmd.rtype)

C8_Witness ==
    /\ cmd.command = "add-record"
    /\ pc = "done"
    /\ exitCode = 0
    /\ Len(Matching0) = 2
    /\ Len(remote0) = 3
    /\ PairRecords(remote, cmd.qname, cmd.rtype)
          = <<Rec(cmd.qname, cmd.rtype, <<"3">>)>>
    /\ Len(remote) = 2

\* C9: when update-record's add call fails, the invocation ends with exit code
\* 1, the add is not issued again, the deleted records are not restored and no
\* record of (qname, rtype) is left on the remote.
C9_UpdateNotAtomic ==
    ( /\ cmd.command = "update-record"
      /\ \E i \in 1..Len(calls) : calls[i].op = "add" /\ calls[i].status # "ok" ) =>
        /\ pc = "done"
        /\ exitCode = 1
        /\ LastOut = "error: Request failed"
        /\ Len(CallsOf("add")) = 1
        /\ calls[Len(calls)].op = "add"
        /\ PairRecords(remote, cmd.qname, cmd.rtype) = <<>>
        /\ OtherRecords(remote, cmd.qname, cmd.rtype)
              = OtherRecords(remote0, cmd.qname, cmd.rtype)

C9_Witness ==
    /\ cmd.command = "update-record"
    /\ Matching0 # <<>>
    /\ Len(calls) = 3
    /\ calls[2] = Call("delete", cmd.qname, cmd.rtype, "ok")
    /\ calls[3].op = "add"
    /\ calls[3].status = "net_error"
    /\ exitCode = 1

\* C10: list-records given a domain returns only records whose name matches
\* the domain, with or without --external; without a domain it returns all.
C10_ListFiltersByDomain ==
    (cmd.command = "list-records" /\ pc = "done" /\ exitCode = 0) =>
        IF cmd.domain # <<>>
        THEN \A i \in 1..Len(result.rows) :
                SpecMatches(result.rows[i].qname, cmd.domain)
        ELSE Len(result.rows) >= Len(remote0)

\* C4: filter_records_by_domain keeps, in their original order, exactly the
\* records whose name matches the domain in the documented sense.
C4_FilterMatchesDocumented ==
    fPc = "done" =>
        fResult = SelectSeq(fRecords, LAMBDA r : SpecMatches(r.qname, fDomain))

====
